---- MODULE Spec2Model ----
(***************************************************************************)
(* Stock-mutation and transfer-request core of the StockTrack backend,     *)
(* with the deletion of items and warehouses and the expense entries that  *)
(* assignments and adjustments record.                                     *)
(*                                                                         *)
(* Every HTTP handler is a sequence of awaited store calls.  The calls a   *)
(* handler makes on the global client before prisma.$transaction are steps *)
(* of their own (other requests may commit between them and the            *)
(* transaction); the callback of prisma.$transaction is one atomic step    *)
(* that either commits every write it made or, when any statement throws,  *)
(* none of them (the store is taken to be the transactional store the      *)
(* handlers assume).                                                       *)
(***************************************************************************)
EXTENDS Integers, Sequences, FiniteSets, Bags, TLC

\* ------------------------------------------------------------------ bounds
MaxOps == 2         \* HTTP requests received in one behaviour
MaxQty == 1         \* largest quantity a request body carries
SeedQty == 1        \* stock the seeded warehouse starts with

Warehouses == {1, 2}
Items == {1, 2}

\* most lines in a transfer request or a sale: a longer list names some item
\* twice, as a list of this length already can
MaxLines == Cardinality(Items)
Pairs == Warehouses \X Items

\* users of the system: prisma.user rows (role, warehouseId)
Users == {"admin", "mgr1", "mgr2"}
UserRole(u) == IF u = "admin" THEN "ADMIN" ELSE "MANAGER"
NoUser == "none"
\* the manager of a warehouse (Warehouse.managerId)
WarehouseManager(w) == IF w = 1 THEN "mgr1" ELSE "mgr2"

\* quantities a request body may carry after parseInt: the handlers accept
\* any integer, so zero and a negative value are inputs too
QtyInputs == (0 - 1) .. MaxQty
\* a line of a transfer request or of a sale (a line of quantity 0 moves
\* nothing and is left out)
LineInputs == [inventoryId : Items, quantity : QtyInputs \ {0}]
ItemLists == UNION {[1 .. n -> LineInputs] : n \in 0 .. MaxLines}

\* the transaction throws after NoFault lines: never
NoFault == MaxLines + 1
FaultPoints == 0 .. NoFault

VARIABLES
    warehouseInventory, \* WarehouseInventory rows: pair -> [present, quantity]
    inventoryLog,       \* InventoryLog rows, in commit order
    transferRequest,    \* TransferRequest rows (with their items), id = index
    sale,               \* Sale rows (with their items), id = index
    req,                \* bag of HTTP requests in flight: past a read, not yet answered
    reply,              \* the answer the last finished handler sent
    issued,             \* number of HTTP requests received so far
    inventory,          \* ids of the Inventory rows that exist
    warehouse,          \* ids of the Warehouse rows that exist
    userWarehouseId,    \* User.warehouseId of every user (0: null)
    expense             \* Expense rows of today: the sequence parts of their
                        \* EXP-<date>-<sequence> references

vars == <<warehouseInventory, inventoryLog, transferRequest, sale, req, reply,
          issued, inventory, warehouse, userWarehouseId, expense>>
tables == <<warehouseInventory, inventoryLog, transferRequest, sale>>
catalog == <<inventory, warehouse, userWarehouseId>>

\* req.user.warehouseId
UserWarehouse(u) == userWarehouseId[u]

\* ---------------------------------------------------------------- helpers
Abs(n) == IF n < 0 THEN 0 - n ELSE n

NoRow == [present |-> FALSE, quantity |-> 0]
Row(q) == [present |-> TRUE, quantity |-> q]

NoRef == <<"", 0>>

LogEntry(i, w, action, q, prev, new, ref) ==
    [inventoryId |-> i, warehouseId |-> w, action |-> action, quantity |-> q,
     previousQty |-> prev, newQty |-> new, remarks |-> ref]

\* the tables a transaction works on
DB == [wi |-> warehouseInventory, log |-> inventoryLog,
       tr |-> transferRequest, sale |-> sale, expense |-> expense]

Commit(d) ==
    /\ warehouseInventory' = d.wi
    /\ inventoryLog' = d.log
    /\ transferRequest' = d.tr
    /\ sale' = d.sale
    /\ expense' = d.expense
    /\ UNCHANGED catalog

\* prisma.$transaction: the callback's writes are kept when it returns and
\* discarded when it throws
TxOutcomeKeepPartial(before, res) == res.db
TxOutcome(before, res) == IF res.ok THEN res.db ELSE before

\* one HTTP request: what it was called with and what it read so far
Request(op, user, id, w, i, qty, to, items) ==
    [op |-> op, user |-> user, id |-> id, w |-> w, i |-> i, qty |-> qty,
     to |-> to, items |-> items, reason |-> "", pc |-> "tx", read |-> 0]

\* res.status(code).json(...): what the handler answered, and about what
Reply(r, code) == [op |-> r.op, id |-> r.id, code |-> code]

CanIssue == issued < MaxOps

\* number of requests answered so far
Answered == issued - BagCardinality(req)

\* the handler answers at once (an early return before any write)
Answer(r, code) ==
    /\ reply' = Reply(r, code)
    /\ issued' = issued + 1
    /\ UNCHANGED <<tables, catalog, expense, req>>

\* the handler passed its checks and goes on to its next await
Proceed(r) ==
    /\ req' = req (+) SetToBag({r})
    /\ issued' = issued + 1
    /\ UNCHANGED <<tables, catalog, expense, reply>>

\* the handler of request r runs its transaction and answers
Finish(r, res, okCode) ==
    /\ Commit(TxOutcome(DB, res))
    /\ reply' = Reply(r, IF res.ok THEN okCode ELSE 500)
    /\ req' = req (-) SetToBag({r})
    /\ UNCHANGED issued

InFlight(r, op, pc) ==
    /\ BagIn(r, req)
    /\ r.op = op
    /\ r.pc = pc

\* ------------------------------------------------------ expense entries
\* generateExpenseReference / generateReference: the sequence part of
\* EXP-<date>-<sequence>, one more than the number of today's expenses
GenerateExpenseReference(expenses) == Cardinality(expenses) + 1

\* createExpenseEntry: expense.create throws when the reference is taken
\* (P2002, the unique reference createExpense reports)
CreateExpenseEntry(d, reference) ==
    IF reference \in d.expense THEN [ok |-> FALSE, db |-> d]
    ELSE [ok |-> TRUE, db |-> [d EXCEPT !.expense = @ \cup {reference}]]

\* ------------------------------------------- assignInventoryToWarehouse
\* the transaction callback of assignInventoryToWarehouse: the balance row,
\* the log entry, then the expense entry of the purchase
AssignTx(d, w, i, qty) ==
    LET existing == d.wi[<<w, i>>]
        previousQty == IF existing.present THEN existing.quantity ELSE 0
        newQty == previousQty + qty
        written == IF existing.present THEN newQty ELSE qty
    IN  CreateExpenseEntry(
            [d EXCEPT
               !.wi[<<w, i>>] = Row(written),
               !.log = Append(@, LogEntry(i, w, "ADD", qty, previousQty,
                                          newQty, NoRef))],
            GenerateExpenseReference(d.expense))

\* the handler reads the item and the warehouse and then runs its
\* transaction; a deletion between the reads and the transaction fails the
\* transaction on the foreign key and leaves the store as the 404 does, so
\* the reads and the transaction are one step here
AssignInventoryToWarehouse(w, i, qty) ==
    /\ CanIssue
    /\ LET r == Request("assign", "admin", 0, w, i, qty, 0, <<>>)
           res == AssignTx(DB, w, i, qty)
       IN  IF qty < 0 THEN Answer(r, 400)
           ELSE IF i \notin inventory \/ w \notin warehouse THEN Answer(r, 404)
           ELSE /\ Commit(TxOutcome(DB, res))
                /\ reply' = Reply(r, IF res.ok THEN 200 ELSE 500)
                /\ issued' = issued + 1
                /\ UNCHANGED req

\* ---------------------------------------------- adjustInventoryQuantity
\* the read of the row and the checks made on it, before the transaction
AdjustInventoryQuantityRead(w, i, qty) ==
    /\ CanIssue
    /\ LET r == Request("adjust", "admin", 0, w, i, qty, 0, <<>>)
           existing == warehouseInventory[<<w, i>>]
       IN  IF ~existing.present THEN Answer(r, 404)
           ELSE IF existing.quantity + qty < 0 THEN Answer(r, 400)
           ELSE Proceed([r EXCEPT !.read = existing.quantity])

\* the transaction callback: writes the quantity computed from the row read
\* before the transaction; a positive adjustment also records an expense
AdjustTx(d, w, i, qty, existingQty) ==
    LET newQty == existingQty + qty
        d1 == [d EXCEPT
                 !.wi[<<w, i>>] = Row(newQty),
                 !.log = Append(@, LogEntry(i, w, "ADJUSTMENT", Abs(qty),
                                            existingQty, newQty, NoRef))]
    IN  IF ~d.wi[<<w, i>>].present THEN [ok |-> FALSE, db |-> d]
        ELSE IF qty > 0
             THEN CreateExpenseEntry(d1, GenerateExpenseReference(d1.expense))
        ELSE [ok |-> TRUE, db |-> d1]

AdjustInventoryQuantityTx(r) ==
    /\ InFlight(r, "adjust", "tx")
    /\ Finish(r, AdjustTx(DB, r.w, r.i, r.qty, r.read), 200)

\* ------------------------------------------------- createTransferRequest
\* the first line of a list the source warehouse cannot cover (0: none); the
\* loop returns at the first such line
FirstShortLineLax(wi, w, items, k) == 0

RECURSIVE FirstShortLine(_, _, _, _)
FirstShortLine(wi, w, items, k) ==
    IF k > Len(items) THEN 0
    ELSE LET row == wi[<<w, items[k].inventoryId>>]
         IN  IF ~row.present \/ row.quantity < items[k].quantity
             THEN k
             ELSE FirstShortLine(wi, w, items, k + 1)

\* no two lines name the same item: the unique index on
\* (transferRequestId, inventoryId) and on (saleId, inventoryId)
DistinctItems(items) ==
    \A a, b \in DOMAIN items :
        items[a].inventoryId = items[b].inventoryId => a = b

CreateReason == "restock"

\* the checks of createTransferRequest, up to the stock check
CreateTransferRequestCheck(user, from, to, items) ==
    /\ CanIssue
    /\ LET r == Request("createTransfer", user, 0, from, 0, 0, to, items)
       IN  IF from = to THEN Answer(r, 400)
           ELSE IF UserWarehouse(user) # from THEN Answer(r, 403)
           ELSE IF Len(items) = 0 THEN Answer(r, 400)
           ELSE IF FirstShortLine(warehouseInventory, from, items, 1) # 0
                THEN Answer(r, 400)
           ELSE Proceed(r)

\* prisma.transferRequest.create with its nested items: one statement
CreateTransferRequestInsertReserving(d, r) ==
    IF ~DistinctItems(r.items) THEN [ok |-> FALSE, db |-> d]
    ELSE [ok |-> TRUE,
          db |-> [d EXCEPT
                    !.wi[<<r.w, r.items[1].inventoryId>>] =
                        Row(@.quantity - r.items[1].quantity),
                    !.tr = Append(@,
                    [fromWarehouseId |-> r.w, toWarehouseId |-> r.to,
                     status |-> "PENDING", reason |-> CreateReason,
                     createdById |-> r.user, approvedById |-> NoUser,
                     approvedAt |-> 0, items |-> r.items])]]

CreateTransferRequestInsert(d, r) ==
    IF ~DistinctItems(r.items) THEN [ok |-> FALSE, db |-> d]
    ELSE [ok |-> TRUE,
          db |-> [d EXCEPT !.tr = Append(@,
                    [fromWarehouseId |-> r.w, toWarehouseId |-> r.to,
                     status |-> "PENDING", reason |-> CreateReason,
                     createdById |-> r.user, approvedById |-> NoUser,
                     approvedAt |-> 0, items |-> r.items])]]

\* the insert fails on a foreign key when a warehouse or an item it names
\* was deleted since the checks
CreateTransferRequestCreate(r) ==
    /\ InFlight(r, "createTransfer", "tx")
    /\ Finish(r,
              IF /\ {r.w, r.to} \subseteq warehouse
                 /\ \A k \in DOMAIN r.items : r.items[k].inventoryId \in inventory
              THEN CreateTransferRequestInsert(DB, r)
              ELSE [ok |-> FALSE, db |-> DB],
              201)

\* ------------------------------------------------------------------- Init
SeedPairs == {<<1, i>> : i \in Items}

RECURSIVE SeedLog(_)
SeedLog(n) ==
    IF n = 0 THEN <<>>
    ELSE Append(SeedLog(n - 1), LogEntry(n, 1, "ADD", SeedQty, 0, SeedQty, NoRef))

\* the store after the administrator assigned SeedQty of every item to
\* warehouse 1 (one ADD entry each)
SeedStore ==
    [wi |-> [p \in Pairs |-> IF p \in SeedPairs THEN Row(SeedQty) ELSE NoRow],
     log |-> SeedLog(Cardinality(Items)),
     tr |-> <<>>,
     sale |-> <<>>,
     expense |-> {}]

\* the transfer requests the manager of warehouse 1 can have created on the
\* seeded store: the lists that pass the checks of createTransferRequest
SeedRequests ==
    {CreateTransferRequestInsert(SeedStore,
         Request("createTransfer", "mgr1", 0, 1, 0, 0, 2, items)).db.tr :
       items \in {l \in ItemLists :
                     /\ Len(l) > 0
                     /\ DistinctItems(l)
                     /\ FirstShortLine(SeedStore.wi, 1, l, 1) = 0}}

\* every manager is assigned to the warehouse they manage
SeedUsers == [u \in Users |-> IF u = "mgr1" THEN 1 ELSE IF u = "mgr2" THEN 2 ELSE 0]
\* ... or the manager of warehouse 1 has since lost the assignment (a
\* deleteWarehouse of another warehouse they managed set it to null)
UnassignedUsers == [SeedUsers EXCEPT !["mgr1"] = 0]

\* the seeded store, with no transfer request yet or with one PENDING
Init ==
    /\ warehouseInventory = SeedStore.wi
    /\ inventoryLog = SeedStore.log
    /\ transferRequest \in {<<>>} \cup SeedRequests
    /\ sale = <<>>
    /\ req = EmptyBag
    /\ reply = [op |-> "", id |-> 0, code |-> 0]
    /\ issued = 0
    /\ inventory = Items
    /\ warehouse = Warehouses
    /\ userWarehouseId \in {SeedUsers, UnassignedUsers}
    /\ expense = SeedStore.expense

\* ------------------------------------------------ approveTransferRequest
\* request.status !== 'PENDING' turns the handler away: one test per handler
Approvable(status) == status = "PENDING"
Rejectable(status) == status = "PENDING"
CancellableLoose(status) == status # "COMPLETED"
Cancellable(status) == status = "PENDING"

\* the handler's clock: new Date() grows with every answer sent
Now == Answered + 1

\* the reads of approveTransferRequest made before its transaction: the
\* request, its status, and the stock of every line
ApproveTransferRequestCheck(id) ==
    /\ CanIssue
    /\ LET r == Request("approve", "admin", id, 0, 0, 0, 0, <<>>)
       IN  IF id \notin DOMAIN transferRequest THEN Answer(r, 404)
           ELSE IF ~Approvable(transferRequest[id].status) THEN Answer(r, 400)
           ELSE IF FirstShortLine(warehouseInventory,
                                  transferRequest[id].fromWarehouseId,
                                  transferRequest[id].items, 1) # 0
                THEN Answer(r, 400)
           ELSE Proceed(r)

\* one pass of the loop over request.items inside the transaction
TransferLineNoDebit(d, request, id, item) ==
    LET from == <<request.fromWarehouseId, item.inventoryId>>
        to == <<request.toWarehouseId, item.inventoryId>>
        fromInventory == d.wi[from]
        newFromQty == fromInventory.quantity - item.quantity
        d1 == [d EXCEPT
                 !.log = Append(@, LogEntry(item.inventoryId, from[1],
                                   "TRANSFER_OUT", item.quantity,
                                   fromInventory.quantity, newFromQty,
                                   <<"TR", id>>))]
        toInventory == d1.wi[to]
        newToQty == IF toInventory.present
                    THEN toInventory.quantity + item.quantity
                    ELSE item.quantity
    IN  [d1 EXCEPT
           !.wi[to] = Row(newToQty),
           !.log = Append(@, LogEntry(item.inventoryId, to[1], "TRANSFER_IN",
                             item.quantity,
                             IF toInventory.present THEN toInventory.quantity ELSE 0,
                             newToQty, <<"TR", id>>))]

TransferLine(d, request, id, item) ==
    LET from == <<request.fromWarehouseId, item.inventoryId>>
        to == <<request.toWarehouseId, item.inventoryId>>
        fromInventory == d.wi[from]
        newFromQty == fromInventory.quantity - item.quantity
        d1 == [d EXCEPT
                 !.wi[from] = Row(newFromQty),
                 !.log = Append(@, LogEntry(item.inventoryId, from[1],
                                   "TRANSFER_OUT", item.quantity,
                                   fromInventory.quantity, newFromQty,
                                   <<"TR", id>>))]
        toInventory == d1.wi[to]
        newToQty == IF toInventory.present
                    THEN toInventory.quantity + item.quantity
                    ELSE item.quantity
    IN  [d1 EXCEPT
           !.wi[to] = Row(newToQty),
           !.log = Append(@, LogEntry(item.inventoryId, to[1], "TRANSFER_IN",
                             item.quantity,
                             IF toInventory.present THEN toInventory.quantity ELSE 0,
                             newToQty, <<"TR", id>>))]

\* the loop of the transaction from line k on; it throws at a line whose
\* source row is missing (fromInventory is null) and when the store fails
\* the transaction after `fault` lines
RECURSIVE TransferLines(_, _, _, _, _)
TransferLines(d, request, id, k, fault) ==
    IF fault = k - 1 THEN [ok |-> FALSE, db |-> d]
    ELSE IF k > Len(request.items) THEN [ok |-> TRUE, db |-> d]
    ELSE IF ~d.wi[<<request.fromWarehouseId, request.items[k].inventoryId>>].present
         THEN [ok |-> FALSE, db |-> d]
    ELSE TransferLines(TransferLine(d, request, id, request.items[k]),
                       request, id, k + 1, fault)

MarkCompletedSkipped(d, id) == d
MarkCompleted(d, id) == [d EXCEPT !.tr[id].status = "COMPLETED"]

\* the transaction callback of approveTransferRequest
ApproveTxUnsigned(d, id, user, now, fault) ==
    LET request == d.tr[id]
        d1 == [d EXCEPT !.tr[id].status = "APPROVED"]
        lines == TransferLines(d1, request, id, 1, fault)
    IN  IF lines.ok
        THEN [ok |-> TRUE, db |-> MarkCompleted(lines.db, id)]
        ELSE lines

ApproveTx(d, id, user, now, fault) ==
    LET request == d.tr[id]
        d1 == [d EXCEPT !.tr[id].status = "APPROVED",
                        !.tr[id].approvedById = user,
                        !.tr[id].approvedAt = now]
        lines == TransferLines(d1, request, id, 1, fault)
    IN  IF lines.ok
        THEN [ok |-> TRUE, db |-> MarkCompleted(lines.db, id)]
        ELSE lines

ApproveTransferRequestTx(r, fault) ==
    /\ InFlight(r, "approve", "tx")
    /\ Finish(r, ApproveTx(DB, r.id, r.user, Now, fault), 200)

\* ------------------------------------------------- rejectTransferRequest
RejectTransferRequestCheck(id, reason) ==
    /\ CanIssue
    /\ LET r == [Request("reject", "admin", id, 0, 0, 0, 0, <<>>)
                    EXCEPT !.reason = reason]
       IN  IF id \notin DOMAIN transferRequest THEN Answer(r, 404)
           ELSE IF ~Rejectable(transferRequest[id].status) THEN Answer(r, 400)
           ELSE Proceed([r EXCEPT !.reason =
                    IF reason # "" THEN reason ELSE transferRequest[id].reason])

RejectUpdate(d, id, user, now, reason) ==
    [ok |-> TRUE,
     db |-> [d EXCEPT !.tr[id].status = "REJECTED",
                      !.tr[id].approvedById = user,
                      !.tr[id].approvedAt = now,
                      !.tr[id].reason = reason]]

RejectTransferRequestUpdate(r) ==
    /\ InFlight(r, "reject", "tx")
    /\ Finish(r, RejectUpdate(DB, r.id, r.user, Now, r.reason), 200)

\* ------------------------------------------------- cancelTransferRequest
CancelTransferRequestCheckAnyone(user, id) ==
    /\ CanIssue
    /\ LET r == Request("cancel", user, id, 0, 0, 0, 0, <<>>)
       IN  IF id \notin DOMAIN transferRequest THEN Answer(r, 404)
           ELSE IF ~Cancellable(transferRequest[id].status) THEN Answer(r, 400)
           ELSE Proceed(r)

CancelTransferRequestCheck(user, id) ==
    /\ CanIssue
    /\ LET r == Request("cancel", user, id, 0, 0, 0, 0, <<>>)
       IN  IF id \notin DOMAIN transferRequest THEN Answer(r, 404)
           ELSE IF ~Cancellable(transferRequest[id].status) THEN Answer(r, 400)
           ELSE IF UserRole(user) = "MANAGER"
                   /\ transferRequest[id].createdById # user
                THEN Answer(r, 403)
           ELSE Proceed(r)

CancelUpdate(d, id) ==
    [ok |-> TRUE, db |-> [d EXCEPT !.tr[id].status = "CANCELLED"]]

CancelTransferRequestUpdate(r) ==
    /\ InFlight(r, "cancel", "tx")
    /\ Finish(r, CancelUpdate(DB, r.id), 200)

\* ------------------------------------------------------------ createSale
\* the validation and the stock check of createSale, before generateSaleNumber
CreateSaleCheckLax(user, w, items) ==
    /\ CanIssue
    /\ LET r == Request("createSale", user, 0, w, 0, 0, 0, items)
       IN  IF Len(items) = 0 THEN Answer(r, 400)
           ELSE IF w \notin warehouse THEN Answer(r, 404)
           ELSE IF \E k \in DOMAIN items :
                       ~warehouseInventory[<<w, items[k].inventoryId>>].present
                THEN Answer(r, 400)
           ELSE Proceed([r EXCEPT !.pc = "number"])

CreateSaleCheck(user, w, items) ==
    /\ CanIssue
    /\ LET r == Request("createSale", user, 0, w, 0, 0, 0, items)
       IN  IF Len(items) = 0 THEN Answer(r, 400)
           ELSE IF w \notin warehouse THEN Answer(r, 404)
           ELSE IF FirstShortLine(warehouseInventory, w, items, 1) # 0
                THEN Answer(r, 400)
           ELSE Proceed([r EXCEPT !.pc = "number"])

\* generateSaleNumber: the sequence part of SALE-<date>-<sequence>, one more
\* than the number of sales created today (every sale here is of one day)
GenerateSaleNumber(sales) == Len(sales) + 1

CreateSaleNumber(r) ==
    /\ InFlight(r, "createSale", "number")
    /\ req' = (req (-) SetToBag({r}))
                 (+) SetToBag({[r EXCEPT !.pc = "tx",
                                         !.read = GenerateSaleNumber(sale)]})
    /\ UNCHANGED <<tables, catalog, expense, reply, issued>>

\* one pass of the loop over items inside the transaction of createSale
SaleLine(d, saleId, w, item, saleNumber) ==
    LET row == d.wi[<<w, item.inventoryId>>]
        newQuantity == row.quantity - item.quantity
    IN  [d EXCEPT
           !.sale[saleId].items = Append(@, item),
           !.wi[<<w, item.inventoryId>>] = Row(newQuantity),
           !.log = Append(@, LogEntry(item.inventoryId, w, "SALE", item.quantity,
                             row.quantity, newQuantity, <<"SALE", saleNumber>>))]

\* the loop from line k on; it throws when saleItem.create meets the unique
\* index on (saleId, inventoryId), when the row is missing, and when the
\* store fails the transaction after `fault` lines
RECURSIVE SaleLinesNoUnique(_, _, _, _, _, _, _)
SaleLinesNoUnique(d, saleId, w, items, saleNumber, k, fault) ==
    IF fault = k - 1 THEN [ok |-> FALSE, db |-> d]
    ELSE IF k > Len(items) THEN [ok |-> TRUE, db |-> d]
    ELSE IF ~d.wi[<<w, items[k].inventoryId>>].present
         THEN [ok |-> FALSE, db |-> d]
    ELSE SaleLinesNoUnique(SaleLine(d, saleId, w, items[k], saleNumber),
                           saleId, w, items, saleNumber, k + 1, fault)

RECURSIVE SaleLines(_, _, _, _, _, _, _)
SaleLines(d, saleId, w, items, saleNumber, k, fault) ==
    IF fault = k - 1 THEN [ok |-> FALSE, db |-> d]
    ELSE IF k > Len(items) THEN [ok |-> TRUE, db |-> d]
    ELSE IF \E j \in DOMAIN d.sale[saleId].items :
                d.sale[saleId].items[j].inventoryId = items[k].inventoryId
         THEN [ok |-> FALSE, db |-> d]
    ELSE IF ~d.wi[<<w, items[k].inventoryId>>].present
         THEN [ok |-> FALSE, db |-> d]
    ELSE SaleLines(SaleLine(d, saleId, w, items[k], saleNumber),
                   saleId, w, items, saleNumber, k + 1, fault)

\* the transaction callback of createSale
CreateSaleTx(d, r, fault) ==
    IF \E s \in DOMAIN d.sale : d.sale[s].saleNumber = r.read
    THEN [ok |-> FALSE, db |-> d]
    ELSE LET d1 == [d EXCEPT !.sale = Append(@,
                      [saleNumber |-> r.read, warehouseId |-> r.w,
                       status |-> "COMPLETED", items |-> <<>>])]
         IN  SaleLines(d1, Len(d1.sale), r.w, r.items, r.read, 1, fault)

CreateSaleCommit(r, fault) ==
    /\ InFlight(r, "createSale", "tx")
    /\ Finish(r, CreateSaleTx(DB, r, fault), 201)

\* ------------------------------------------------------------ cancelSale
\* the reads of cancelSale made before its transaction; the sale and its
\* items are what the transaction later works from
CancelSaleCheckAny(user, id) ==
    /\ CanIssue
    /\ LET r == Request("cancelSale", user, id, 0, 0, 0, 0, <<>>)
       IN  IF UserRole(user) = "STAFF" THEN Answer(r, 403)
           ELSE IF id \notin DOMAIN sale THEN Answer(r, 404)
           ELSE Proceed([r EXCEPT !.w = sale[id].warehouseId,
                                  !.items = sale[id].items,
                                  !.read = sale[id].saleNumber])

CancelSaleCheck(user, id) ==
    /\ CanIssue
    /\ LET r == Request("cancelSale", user, id, 0, 0, 0, 0, <<>>)
       IN  IF UserRole(user) = "STAFF" THEN Answer(r, 403)
           ELSE IF id \notin DOMAIN sale THEN Answer(r, 404)
           ELSE IF sale[id].status = "CANCELLED" THEN Answer(r, 400)
           ELSE Proceed([r EXCEPT !.w = sale[id].warehouseId,
                                  !.items = sale[id].items,
                                  !.read = sale[id].saleNumber])

\* the loop over sale.items inside the transaction of cancelSale: a line
\* whose row is gone is skipped
RECURSIVE RestoreLines(_, _, _, _, _)
RestoreLines(d, w, items, saleNumber, k) ==
    IF k > Len(items) THEN d
    ELSE LET row == d.wi[<<w, items[k].inventoryId>>]
             newQuantity == row.quantity + items[k].quantity
             d1 == IF row.present
                   THEN [d EXCEPT
                           !.wi[<<w, items[k].inventoryId>>] = Row(newQuantity),
                           !.log = Append(@, LogEntry(items[k].inventoryId, w,
                                             "ADJUSTMENT", items[k].quantity,
                                             row.quantity, newQuantity,
                                             <<"CANCEL", saleNumber>>))]
                   ELSE d
         IN  RestoreLines(d1, w, items, saleNumber, k + 1)

\* the transaction callback of cancelSale
CancelSaleTxStatusOnly(d, r) ==
    [ok |-> TRUE, db |-> [d EXCEPT !.sale[r.id].status = "CANCELLED"]]

CancelSaleTx(d, r) ==
    [ok |-> TRUE,
     db |-> RestoreLines([d EXCEPT !.sale[r.id].status = "CANCELLED"],
                         r.w, r.items, r.read, 1)]

CancelSaleCommit(r) ==
    /\ InFlight(r, "cancelSale", "tx")
    /\ Finish(r, CancelSaleTx(DB, r), 200)

\* ------------------------------------------------------- deleteInventory
\* totalStock: the sum of the item's balance rows
RECURSIVE SumRows(_, _, _)
SumRows(wi, i, ws) ==
    IF ws = {} THEN 0
    ELSE LET w == CHOOSE x \in ws : TRUE
         IN  (IF wi[<<w, i>>].present THEN wi[<<w, i>>].quantity ELSE 0)
                + SumRows(wi, i, ws \ {w})

TotalStock(wi, i) == SumRows(wi, i, Warehouses)

\* the read of the item with its balance rows and the check on their sum
\* (an item that does not exist has totalStock 0 and goes on to the delete)
DeleteInventoryCheck(i) ==
    /\ CanIssue
    /\ LET r == Request("deleteInventory", "admin", i, 0, i, 0, 0, <<>>)
           totalStock == IF i \in inventory
                         THEN TotalStock(warehouseInventory, i) ELSE 0
       IN  IF totalStock > 0 THEN Answer(r, 400) ELSE Proceed(r)

\* a TransferRequestItem or a SaleItem names the item: ON DELETE RESTRICT
ItemReferenced(i) ==
    \/ \E t \in DOMAIN transferRequest, k \in 1 .. MaxLines :
           /\ k \in DOMAIN transferRequest[t].items
           /\ transferRequest[t].items[k].inventoryId = i
    \/ \E s \in DOMAIN sale, k \in 1 .. MaxLines :
           /\ k \in DOMAIN sale[s].items
           /\ sale[s].items[k].inventoryId = i

\* prisma.inventory.delete: the item's WarehouseInventory and InventoryLog
\* rows go with it (ON DELETE CASCADE)
DeleteInventoryDelete(r) ==
    /\ InFlight(r, "deleteInventory", "tx")
    /\ req' = req (-) SetToBag({r})
    /\ UNCHANGED <<issued, transferRequest, sale, expense, warehouse,
                   userWarehouseId>>
    /\ IF r.i \notin inventory
       THEN /\ reply' = Reply(r, 404)
            /\ UNCHANGED <<warehouseInventory, inventoryLog, inventory>>
       ELSE IF ItemReferenced(r.i)
       THEN /\ reply' = Reply(r, 500)
            /\ UNCHANGED <<warehouseInventory, inventoryLog, inventory>>
       ELSE /\ reply' = Reply(r, 200)
            /\ inventory' = inventory \ {r.i}
            /\ warehouseInventory' =
                   [p \in Pairs |-> IF p[2] = r.i THEN NoRow
                                    ELSE warehouseInventory[p]]
            /\ inventoryLog' =
                   SelectSeq(inventoryLog, LAMBDA e : e.inventoryId # r.i)

\* ------------------------------------------------------- deleteWarehouse
\* warehouse._count.users
CountUsers(w) == Cardinality({u \in Users : UserWarehouse(u) = w})

\* the read of the warehouse with the number of its users
DeleteWarehouseCheck(w) ==
    /\ CanIssue
    /\ LET r == Request("deleteWarehouse", "admin", w, w, 0, 0, 0, <<>>)
       IN  IF w \notin warehouse THEN Answer(r, 404)
           ELSE IF CountUsers(w) > 0 THEN Answer(r, 400)
           ELSE Proceed([r EXCEPT !.pc = "manager"])

\* prisma.user.update: the manager's warehouseId is set to null, in a call
\* of its own before the delete
DeleteWarehouseManager(r) ==
    /\ InFlight(r, "deleteWarehouse", "manager")
    /\ userWarehouseId' = [userWarehouseId EXCEPT ![WarehouseManager(r.w)] = 0]
    /\ req' = (req (-) SetToBag({r})) (+) SetToBag({[r EXCEPT !.pc = "tx"]})
    /\ UNCHANGED <<tables, expense, inventory, warehouse, reply, issued>>

\* a TransferRequest or a Sale names the warehouse: ON DELETE RESTRICT
WarehouseReferenced(w) ==
    \/ \E t \in DOMAIN transferRequest :
           \/ transferRequest[t].fromWarehouseId = w
           \/ transferRequest[t].toWarehouseId = w
    \/ \E s \in DOMAIN sale : sale[s].warehouseId = w

\* prisma.warehouse.delete: the warehouse's WarehouseInventory rows go with
\* it (ON DELETE CASCADE); InventoryLog has no foreign key to Warehouse
DeleteWarehouseDelete(r) ==
    /\ InFlight(r, "deleteWarehouse", "tx")
    /\ req' = req (-) SetToBag({r})
    /\ UNCHANGED <<issued, inventoryLog, transferRequest, sale, expense,
                   inventory, userWarehouseId>>
    /\ IF r.w \notin warehouse
       THEN /\ reply' = Reply(r, 404)
            /\ UNCHANGED <<warehouseInventory, warehouse>>
       ELSE IF WarehouseReferenced(r.w)
       THEN /\ reply' = Reply(r, 500)
            /\ UNCHANGED <<warehouseInventory, warehouse>>
       ELSE /\ reply' = Reply(r, 200)
            /\ warehouse' = warehouse \ {r.w}
            /\ warehouseInventory' =
                   [p \in Pairs |-> IF p[1] = r.w THEN NoRow
                                    ELSE warehouseInventory[p]]

\* --------------------------------------------------------- createExpense
\* references a caller may supply: EXP-<date>-<n> of today (NoReference:
\* the body carries none)
NoReference == 0
ExpenseReferences == 1 .. MaxOps + 1

\* with a reference in the body the handler goes straight to expense.create;
\* without one it first counts today's expenses (generateReference)
CreateExpense(reference) ==
    /\ CanIssue
    /\ LET r == [Request("createExpense", "admin", 0, 0, 0, 0, 0, <<>>)
                    EXCEPT !.read = reference]
           res == CreateExpenseEntry(DB, reference)
       IN  IF reference = NoReference
           THEN Proceed([r EXCEPT !.read = GenerateExpenseReference(expense)])
           ELSE /\ Commit(TxOutcome(DB, res))
                /\ reply' = Reply(r, IF res.ok THEN 201 ELSE 400)
                /\ issued' = issued + 1
                /\ UNCHANGED req

\* expense.create with the generated reference; P2002 is answered 400
CreateExpenseCreate(r) ==
    /\ InFlight(r, "createExpense", "tx")
    /\ LET res == CreateExpenseEntry(DB, r.read)
       IN  /\ Commit(TxOutcome(DB, res))
           /\ reply' = Reply(r, IF res.ok THEN 201 ELSE 400)
           /\ req' = req (-) SetToBag({r})
           /\ UNCHANGED issued

\* --------------------------------------------------------- deleteExpense
\* the read of the expense (an expense is named here by its reference)
DeleteExpenseCheck(e) ==
    /\ CanIssue
    /\ LET r == Request("deleteExpense", "admin", e, 0, 0, 0, 0, <<>>)
       IN  IF e \notin expense THEN Answer(r, 404) ELSE Proceed(r)

\* expense.delete; a row deleted since the read makes it throw
DeleteExpenseDelete(r) ==
    /\ InFlight(r, "deleteExpense", "tx")
    /\ Finish(r, IF r.id \in expense
                 THEN [ok |-> TRUE, db |-> [DB EXCEPT !.expense = @ \ {r.id}]]
                 ELSE [ok |-> FALSE, db |-> DB],
              200)

\* ids a request may name: every existing row and one that does not exist
TransferIds == 1 .. Len(transferRequest) + 1
SaleIds == 1 .. Len(sale) + 1
\* who the routes let create and cancel sales
SaleActors == {"admin"}

\* ---------------------------------------------------------- observations
Qty(pair) == warehouseInventory[pair].quantity

\* this step answered a request of kind op about id with HTTP status code
Answers(op, id, code) ==
    /\ issued' - BagCardinality(req') = Answered + 1
    /\ reply' = [op |-> op, id |-> id, code |-> code]

\* this step received a request of kind op about id
Receives(op, id) ==
    /\ issued' = issued + 1
    /\ \/ req' = req /\ reply'.op = op /\ reply'.id = id
       \/ \E r \in BagToSet(req') :
              /\ CopiesIn(r, req') = CopiesIn(r, req) + 1
              /\ r.op = op
              /\ r.id = id

\* the log entries this step appended
NewEntries == SubSeq(inventoryLog', Len(inventoryLog) + 1, Len(inventoryLog'))

EntriesOf(log, pair) ==
    SelectSeq(log, LAMBDA e : e.warehouseId = pair[1] /\ e.inventoryId = pair[2])

RECURSIVE SumDeltas(_)
SumDeltas(log) ==
    IF Len(log) = 0 THEN 0
    ELSE (log[1].newQty - log[1].previousQty) + SumDeltas(Tail(log))

TransferEntries(id, action, i) ==
    SelectSeq(inventoryLog, LAMBDA e : /\ e.remarks = <<"TR", id>>
                                       /\ e.action = action
                                       /\ e.inventoryId = i)

TerminalStatus == {"COMPLETED", "REJECTED", "CANCELLED"}

Short(id) ==
    FirstShortLine(warehouseInventory, transferRequest[id].fromWarehouseId,
                   transferRequest[id].items, 1) # 0

\* HTTP status codes the handlers answer with
Codes == {200, 201, 400, 403, 404, 500}

\* this step is a step of a handler of kind op: it received the request or
\* answered it
StepOf(op) ==
    \/ /\ issued' = issued + 1
       /\ req' = req
       /\ reply'.op = op
    \/ /\ issued' = issued + 1
       /\ \E r \in BagToSet(req') :
              r.op = op /\ CopiesIn(r, req') = CopiesIn(r, req) + 1
    \/ /\ issued' = issued
       /\ BagCardinality(req') < BagCardinality(req)
       /\ reply'.op = op

\* ----------------------------------------------------------------- claims

\* C1: after any interleaving of assign, adjust, sale, sale cancellation and
\* transfer approval, every committed (warehouse, item) balance is >= 0.
NonNegativity == \A pair \in Pairs : Qty(pair) >= 0

\* C2: no lost updates: the committed balance of every pair is the sum of
\* the signed deltas of the mutations committed on it (each mutation logs
\* its own delta as newQty - previousQty).
NoLostUpdates ==
    \A pair \in Pairs : Qty(pair) = SumDeltas(EntriesOf(inventoryLog, pair))

\* C3: conservation under transfer: a step that commits an approval leaves
\* source balance + destination balance of every item on the request as it
\* was just before the commit.
ConservationUnderTransfer ==
    [][\A id \in DOMAIN transferRequest :
          Answers("approve", id, 200) =>
              \A k \in DOMAIN transferRequest[id].items :
                  LET i == transferRequest[id].items[k].inventoryId
                      src == <<transferRequest[id].fromWarehouseId, i>>
                      dst == <<transferRequest[id].toWarehouseId, i>>
                  IN  warehouseInventory'[src].quantity
                          + warehouseInventory'[dst].quantity
                      = Qty(src) + Qty(dst)]_vars

\* an approval committed while another request was in flight
ConservationWitness ==
    /\ reply.op = "approve" /\ reply.code = 200
    /\ BagCardinality(req) > 0
    /\ \E e \in DOMAIN inventoryLog : inventoryLog[e].action = "TRANSFER_IN"

\* C4: atomicity: when the transaction of approveTransferRequest or of
\* createSale throws (the handler answers 500), no balance row, log entry,
\* sale, sale item or transfer-request field written by it is committed.
AtomicityOnFailure ==
    [][\A op \in {"approve", "createSale"} :
          (\E id \in 0 .. MaxOps : Answers(op, id, 500)) =>
              UNCHANGED tables]_vars

\* a transaction of createSale or approveTransferRequest failed
AtomicityWitness ==
    /\ reply.op \in {"approve", "createSale"}
    /\ reply.code = 500

\* C5: log completeness: a step appends exactly one entry for every row it
\* touches and none for the others; in the entry newQty - previousQty is the
\* delta applied to the row and quantity is its magnitude.
LogCompleteness ==
    [][\A pair \in Pairs :
          LET new == EntriesOf(NewEntries, pair)
              delta == warehouseInventory'[pair].quantity - Qty(pair)
          IN  /\ warehouseInventory'[pair] # warehouseInventory[pair]
                    => Len(new) = 1
              /\ \A n \in DOMAIN new :
                    /\ Len(new) = 1
                    /\ new[n].newQty - new[n].previousQty = delta
                    /\ new[n].quantity = Abs(delta)]_vars

\* C6: approve, reject and cancel received for a request that is not PENDING
\* are answered 400 at once and change nothing.
TransferLegality ==
    [][\A op \in {"approve", "reject", "cancel"}, id \in DOMAIN transferRequest :
          Receives(op, id) /\ transferRequest[id].status # "PENDING" =>
              /\ Answers(op, id, 400)
              /\ UNCHANGED <<tables, req>>]_vars

\* a cancel was turned away from a request that had left PENDING
TransferLegalityWitness ==
    /\ reply.op = "cancel" /\ reply.code = 400
    /\ reply.id \in DOMAIN transferRequest
    /\ transferRequest[reply.id].status \in TerminalStatus

\* C7: idempotent approval: however many approvals of one request run, each
\* of its lines is moved at most once: at most one TRANSFER_OUT and one
\* TRANSFER_IN entry per line.
IdempotentApproval ==
    \A id \in DOMAIN transferRequest :
        \A k \in DOMAIN transferRequest[id].items :
            LET i == transferRequest[id].items[k].inventoryId
            IN  /\ Len(TransferEntries(id, "TRANSFER_OUT", i)) <= 1
                /\ Len(TransferEntries(id, "TRANSFER_IN", i)) <= 1

\* C8: terminal states: a committed status COMPLETED, REJECTED or CANCELLED
\* never changes again.
TerminalStatesFinal ==
    [][\A id \in DOMAIN transferRequest :
          transferRequest[id].status \in TerminalStatus =>
              transferRequest'[id].status = transferRequest[id].status]_vars

\* C9: no committed state holds a transfer request with status APPROVED.
NoCommittedApproved ==
    \A id \in DOMAIN transferRequest : transferRequest[id].status # "APPROVED"

\* an approval ran through its APPROVED write to its end
NoCommittedApprovedWitness ==
    \E id \in DOMAIN transferRequest :
        /\ transferRequest[id].status = "COMPLETED"
        /\ transferRequest[id].approvedAt # 0

\* C10: binding re-validation: an approval answered while some line of the
\* PENDING request is short at the source fails and changes nothing.
BindingRevalidation ==
    [][\A id \in DOMAIN transferRequest :
          /\ transferRequest[id].status = "PENDING"
          /\ Short(id)
          /\ \E code \in {200, 400, 500} : Answers("approve", id, code)
          => /\ ~Answers("approve", id, 200)
             /\ UNCHANGED tables]_vars

\* C11: a step that commits an approval debits the source of every line by
\* its quantity and credits the destination by it (a missing destination
\* row is created with the quantity and logged with previousQty 0), leaves
\* the request COMPLETED with approvedBy and approvedAt set, and leaves the
\* balance of every other (warehouse, item) pair as it was.
ApprovalResult ==
    [][\A id \in DOMAIN transferRequest :
          Answers("approve", id, 200) =>
              LET request == transferRequest[id]
                  Touched == {<<w, request.items[k].inventoryId>> :
                                 w \in {request.fromWarehouseId, request.toWarehouseId},
                                 k \in DOMAIN request.items}
              IN  /\ \A k \in DOMAIN request.items :
                        LET i == request.items[k].inventoryId
                            q == request.items[k].quantity
                            src == <<request.fromWarehouseId, i>>
                            dst == <<request.toWarehouseId, i>>
                        IN  /\ warehouseInventory'[src].quantity = Qty(src) - q
                            /\ warehouseInventory'[dst] = Row(Qty(dst) + q)
                            /\ ~warehouseInventory[dst].present =>
                                  \E n \in DOMAIN NewEntries :
                                      /\ NewEntries[n].action = "TRANSFER_IN"
                                      /\ NewEntries[n].inventoryId = i
                                      /\ NewEntries[n].warehouseId = dst[1]
                                      /\ NewEntries[n].previousQty = 0
                                      /\ NewEntries[n].newQty = q
                  /\ transferRequest'[id].status = "COMPLETED"
                  /\ transferRequest'[id].approvedById # NoUser
                  /\ transferRequest'[id].approvedAt # 0
                  /\ \A p \in Pairs \ Touched :
                        warehouseInventory'[p] = warehouseInventory[p]]_vars

\* an approval of a two-line request committed and created a destination row
ApprovalResultWitness ==
    /\ reply.op = "approve" /\ reply.code = 200
    /\ reply.id \in DOMAIN transferRequest
    /\ Len(transferRequest[reply.id].items) = MaxLines
    /\ \E e \in DOMAIN inventoryLog :
          /\ inventoryLog[e].remarks = <<"TR", reply.id>>
          /\ inventoryLog[e].action = "TRANSFER_IN"
          /\ inventoryLog[e].previousQty = 0

\* C12: no step of createTransferRequest, rejectTransferRequest or
\* cancelTransferRequest, succeeding or failing, changes a balance or appends
\* a log entry; a request that was created starts PENDING.
RequestFrame ==
    [][\A op \in {"createTransfer", "reject", "cancel"} :
          StepOf(op) =>
              /\ UNCHANGED <<warehouseInventory, inventoryLog>>
              /\ Len(transferRequest') > Len(transferRequest) =>
                    transferRequest'[Len(transferRequest')].status = "PENDING"]_vars

\* a request was created after another one was rejected or cancelled
RequestFrameWitness ==
    /\ reply.op = "createTransfer" /\ reply.code = 201
    /\ \E id \in DOMAIN transferRequest :
          transferRequest[id].status \in {"REJECTED", "CANCELLED"}
    /\ transferRequest[Len(transferRequest)].status = "PENDING"

\* the conditions createTransferRequest requires, as the contract words them
CreateAllowed(user, from, to, items) ==
    /\ UserWarehouse(user) = from
    /\ from # to
    /\ Len(items) > 0
    /\ \A k \in DOMAIN items :
          Qty(<<from, items[k].inventoryId>>) >= items[k].quantity

\* C13: createTransferRequest goes past its checks only when the manager's
\* warehouse is the source, source and destination differ, the list is not
\* empty and the source covers every line at that time; a transfer request
\* row is created only by a request that went past them, so when a condition
\* fails no request and no line is created.
CreateConditions ==
    [][/\ \A r \in BagToSet(req') :
             r.op = "createTransfer" /\ CopiesIn(r, req') > CopiesIn(r, req) =>
                 CreateAllowed(r.user, r.w, r.to, r.items)
       /\ StepOf("createTransfer") /\ reply'.code \in {400, 403} =>
             UNCHANGED tables
       /\ Len(transferRequest') > Len(transferRequest) =>
             \E r \in BagToSet(req) :
                 /\ r.op = "createTransfer"
                 /\ req' = req (-) SetToBag({r})
                 /\ transferRequest' = Append(transferRequest,
                        [transferRequest'[Len(transferRequest')] EXCEPT
                            !.fromWarehouseId = r.w, !.toWarehouseId = r.to,
                            !.createdById = r.user, !.items = r.items])]_vars

\* a request was refused at the checks and none was created by it
CreateConditionsWitness ==
    /\ reply.op = "createTransfer" /\ reply.code \in {400, 403}
    /\ Len(transferRequest) = 1
    /\ issued > 0

\* C14: createSale goes past its stock check only when the warehouse holds a
\* row for every line with a balance of at least the line quantity; a
\* request refused there (400) creates no sale, sale item or log entry and
\* changes no balance, and a sale is created only by a request that went
\* past the check.
SaleRejectedWhenShort ==
    [][/\ \A r \in BagToSet(req') :
             /\ r.op = "createSale"
             /\ issued' = issued + 1
             /\ CopiesIn(r, req') > CopiesIn(r, req)
             => \A k \in DOMAIN r.items :
                     LET pair == <<r.w, r.items[k].inventoryId>>
                     IN  /\ warehouseInventory[pair].present
                         /\ Qty(pair) >= r.items[k].quantity
       /\ StepOf("createSale") /\ reply'.code = 400 => UNCHANGED tables
       /\ Len(sale') > Len(sale) =>
             \E r \in BagToSet(req) :
                 /\ r.op = "createSale"
                 /\ req' = req (-) SetToBag({r})
                 /\ sale'[Len(sale')].items = r.items
                 /\ sale'[Len(sale')].warehouseId = r.w]_vars

\* a sale was refused at the stock check after an earlier sale had emptied a
\* row of the warehouse
SaleRejectedWitness ==
    /\ reply.op = "createSale" /\ reply.code = 400
    /\ Len(sale) = 1
    /\ \E k \in DOMAIN sale[1].items :
          /\ sale[1].items[k].quantity > 0
          /\ Qty(<<sale[1].warehouseId, sale[1].items[k].inventoryId>>) = 0

\* the log entries of one line of a sale: kind is "SALE" or "CANCEL"
SaleEntries(log, kind, saleNumber, i) ==
    SelectSeq(log, LAMBDA e : e.remarks = <<kind, saleNumber>> /\ e.inventoryId = i)

\* C15: the step that commits the cancellation of a COMPLETED sale credits
\* every line's quantity back and marks the sale CANCELLED; where the sale's
\* own SALE entry is still the last entry of the pair (nothing else touched
\* it since) the balance is again what it was before the sale; the log then
\* holds exactly one SALE and one ADJUSTMENT entry per line, both of the
\* line's quantity.
SaleCancelRoundTrip ==
    [][\A id \in DOMAIN sale :
          Answers("cancelSale", id, 200) /\ sale[id].status = "COMPLETED" =>
              /\ sale'[id].status = "CANCELLED"
              /\ \A k \in DOMAIN sale[id].items :
                    LET i == sale[id].items[k].inventoryId
                        q == sale[id].items[k].quantity
                        pair == <<sale[id].warehouseId, i>>
                        n == sale[id].saleNumber
                        before == EntriesOf(inventoryLog, pair)
                        sold == SaleEntries(inventoryLog', "SALE", n, i)
                        restored == SaleEntries(inventoryLog', "CANCEL", n, i)
                    IN  /\ warehouseInventory'[pair].quantity = Qty(pair) + q
                        /\ before[Len(before)].remarks = <<"SALE", n>> =>
                              warehouseInventory'[pair].quantity
                                  = before[Len(before)].previousQty
                        /\ Len(sold) = 1 /\ Len(restored) = 1
                        /\ sold[1].action = "SALE"
                        /\ restored[1].action = "ADJUSTMENT"
                        /\ sold[1].quantity = q /\ restored[1].quantity = q]_vars

\* a sale made in this behaviour was cancelled and its stock is back
SaleCancelRoundTripWitness ==
    /\ reply.op = "cancelSale" /\ reply.code = 200
    /\ reply.id \in DOMAIN sale
    /\ sale[reply.id].status = "CANCELLED"
    /\ \E e \in DOMAIN inventoryLog :
          /\ inventoryLog[e].remarks = <<"CANCEL", sale[reply.id].saleNumber>>
          /\ inventoryLog[e].quantity > 0
          /\ inventoryLog[e].newQty = SeedQty

\* C16: cancelSale received for a sale that is already CANCELLED is answered
\* 400 at once and changes nothing, and no step moves a sale from CANCELLED
\* to another status.
SaleStatusOneWay ==
    [][\A id \in DOMAIN sale :
          sale[id].status = "CANCELLED" =>
              /\ sale'[id].status = "CANCELLED"
              /\ Receives("cancelSale", id) =>
                    /\ Answers("cancelSale", id, 400)
                    /\ UNCHANGED <<tables, req>>]_vars

\* a cancellation was turned away from a sale that was already CANCELLED
SaleStatusOneWayWitness ==
    /\ reply.op = "cancelSale" /\ reply.code = 400
    /\ reply.id \in DOMAIN sale
    /\ sale[reply.id].status = "CANCELLED"

\* C17: however many cancellations of one sale run, each of its lines is
\* credited back at most once: at most one ADJUSTMENT entry per line refers
\* to the sale.
SingleRestore ==
    \A id \in DOMAIN sale :
        \A k \in DOMAIN sale[id].items :
            Len(SaleEntries(inventoryLog, "CANCEL", sale[id].saleNumber,
                            sale[id].items[k].inventoryId)) <= 1

\* C18: assignInventoryToWarehouse called with a quantity <= 0 is refused
\* (400) and writes nothing: no row is created or updated and no log entry
\* is appended.
AssignRejectsNonPositive ==
    [][\A w \in Warehouses, i \in Items, qty \in QtyInputs :
          qty <= 0 /\ AssignInventoryToWarehouse(w, i, qty) =>
              /\ reply'.code = 400
              /\ UNCHANGED tables]_vars

\* C19: adjustInventoryQuantity that would take the balance below zero is
\* refused (400) and writes nothing; an adjustment that commits leaves the
\* balance at its value just before the commit plus the signed quantity.
AdjustResult ==
    [][/\ \A w \in Warehouses, i \in Items, qty \in (0 - MaxQty) .. MaxQty :
             /\ AdjustInventoryQuantityRead(w, i, qty)
             /\ warehouseInventory[<<w, i>>].present
             /\ Qty(<<w, i>>) + qty < 0
             => reply'.code = 400 /\ UNCHANGED <<tables, req>>
       /\ \A r \in BagToSet(req) :
             AdjustInventoryQuantityTx(r) /\ reply'.code = 200 =>
                 warehouseInventory'[<<r.w, r.i>>].quantity
                     = Qty(<<r.w, r.i>>) + r.qty]_vars

\* C20: an absent row counts as quantity 0: adjustInventoryQuantity with a
\* positive quantity on a pair without a row is not turned away; it goes on
\* to its transaction, which creates the row with that quantity and appends
\* one ADJUSTMENT entry with previousQty 0.
AbsentRowAsZero ==
    [][/\ \A w \in Warehouses, i \in Items, qty \in 1 .. MaxQty :
             /\ AdjustInventoryQuantityRead(w, i, qty)
             /\ ~warehouseInventory[<<w, i>>].present
             => req' # req
       /\ \A r \in BagToSet(req) :
             /\ AdjustInventoryQuantityTx(r)
             /\ ~warehouseInventory[<<r.w, r.i>>].present
             /\ r.qty > 0
             => /\ warehouseInventory'[<<r.w, r.i>>] = Row(r.qty)
                /\ Len(NewEntries) = 1
                /\ NewEntries[1].action = "ADJUSTMENT"
                /\ NewEntries[1].previousQty = 0
                /\ NewEntries[1].newQty = r.qty]_vars

\* C21: the movement log is append-only: no step, a deleteInventory or a
\* deleteWarehouse included, removes or alters an entry already written.
LogAppendOnly ==
    [][/\ Len(inventoryLog') >= Len(inventoryLog)
       /\ SubSeq(inventoryLog', 1, Len(inventoryLog)) = inventoryLog]_vars

\* C22: a balance row whose quantity is above zero is changed only by the
\* ledger operations: the delete of deleteInventory and of deleteWarehouse
\* leaves every such row as it was.
BalanceRowsLedgerOnly ==
    [][\A r \in BagToSet(req) :
          DeleteInventoryDelete(r) \/ DeleteWarehouseDelete(r)
          => \A p \in Pairs :
                warehouseInventory[p].present /\ warehouseInventory[p].quantity > 0
                => warehouseInventory'[p] = warehouseInventory[p]]_vars

\* C23: an item is never deleted while a warehouse holds stock of it: no
\* step removes an item whose total balance is above zero at that moment,
\* whatever assignments or transfers committed since deleteInventory read
\* the balances.
NoDeleteWhileStocked ==
    [][\A i \in inventory :
          TotalStock(warehouseInventory, i) > 0 => i \in inventory']_vars

\* C24: cancelTransferRequest goes past its checks only for a PENDING
\* request, and for a MANAGER only when that manager created it; a MANAGER
\* who names another user's request is turned away and nothing is written;
\* an ADMIN goes past the checks for any PENDING request; the update that
\* follows answers 200 and leaves the request CANCELLED.
CancelOwnership ==
    [][/\ \A u \in Users, id \in TransferIds :
             CancelTransferRequestCheck(u, id)
             => LET exists == id \in DOMAIN transferRequest
                    pending == exists /\ transferRequest[id].status = "PENDING"
                    own == exists /\ transferRequest[id].createdById = u
                IN  /\ req' # req
                        => pending /\ (UserRole(u) = "MANAGER" => own)
                    /\ UserRole(u) = "MANAGER" /\ exists /\ ~own
                        => /\ reply'.code \in {400, 403}
                           /\ UNCHANGED <<tables, req>>
                    /\ UserRole(u) = "ADMIN" /\ pending => req' # req
       /\ \A r \in BagToSet(req) :
             CancelTransferRequestUpdate(r)
             => /\ reply' = [op |-> "cancel", id |-> r.id, code |-> 200]
                /\ transferRequest'[r.id].status = "CANCELLED"]_vars

\* a manager was turned away from a PENDING request of another manager
CancelOwnershipWitness ==
    /\ reply = [op |-> "cancel", id |-> 1, code |-> 403]
    /\ transferRequest[1].status = "PENDING"
    /\ transferRequest[1].createdById = "mgr1"

\* C25: sale numbers are unique and overlapping sales both commit: the
\* transaction of a createSale that passed its checks, names no item twice
\* and meets no store failure is answered 201, and the sale it adds carries
\* a number no other sale has.
SaleNumbersUnique ==
    [][\A r \in BagToSet(req) :
          CreateSaleCommit(r, NoFault) /\ DistinctItems(r.items)
          => /\ reply'.code = 201
             /\ Len(sale') = Len(sale) + 1
             /\ \A a \in DOMAIN sale : sale[a].saleNumber # sale'[Len(sale')].saleNumber]_vars

\* C26: reconciliation: in every state, a pair with at least one log entry
\* has a balance row whose quantity is the newQty of the pair's latest
\* entry, and a pair with no log entry has no row or a row of quantity 0.
Reconciliation ==
    \A p \in Pairs :
        LET entries == EntriesOf(inventoryLog, p)
        IN  IF Len(entries) > 0
            THEN /\ warehouseInventory[p].present
                 /\ warehouseInventory[p].quantity = entries[Len(entries)].newQty
            ELSE ~warehouseInventory[p].present \/ warehouseInventory[p].quantity = 0

\* C27: log chain: for every pair, in commit order, each entry's previousQty
\* is the newQty of the pair's entry before it, and 0 for the pair's first
\* entry.
LogChain ==
    \A p \in Pairs :
        LET entries == EntriesOf(inventoryLog, p)
        IN  \A k \in DOMAIN entries :
                entries[k].previousQty =
                    IF k = 1 THEN 0 ELSE entries[k - 1].newQty

\* C28: every line quantity createTransferRequest and createSale accept is
\* positive: a step that stores a new transfer request or a new sale stores
\* only lines whose quantity is above zero.
AcceptedLinesPositive ==
    [][/\ Len(transferRequest') > Len(transferRequest)
          => \A k \in DOMAIN transferRequest'[Len(transferRequest')].items :
                transferRequest'[Len(transferRequest')].items[k].quantity > 0
       /\ Len(sale') > Len(sale)
          => \A k \in DOMAIN sale'[Len(sale')].items :
                sale'[Len(sale')].items[k].quantity > 0]_vars

\* C29: a createSale that names one item on two lines (of one quantity) goes
\* past the stock check when a line alone is within the balance, and the
\* transaction of a createSale that names an item twice
\* then commits nothing: it is answered 500 and no sale, balance or log
\* entry changes.
DuplicateLineSaleAborts ==
    [][/\ \A u \in SaleActors, w \in Warehouses, i \in Items, q \in 1 .. MaxQty :
             /\ issued' = issued + 1
             /\ warehouseInventory[<<w, i>>].present
             /\ Qty(<<w, i>>) >= q
             /\ CreateSaleCheck(u, w, <<[inventoryId |-> i, quantity |-> q],
                                        [inventoryId |-> i, quantity |-> q]>>)
             => req' # req
       /\ \A r \in BagToSet(req), fault \in FaultPoints :
             /\ issued' = issued
             /\ r.op = "createSale"
             /\ ~DistinctItems(r.items)
             /\ CreateSaleCommit(r, fault)
             => /\ reply' = [op |-> "createSale", id |-> 0, code |-> 500]
                /\ UNCHANGED tables]_vars

\* a createSale naming item 1 twice, each line within the balance and the
\* two together above it, went past the stock check and holds its number
DuplicateLineSaleWitness ==
    \E r \in BagToSet(req) :
        /\ r.op = "createSale" /\ r.pc = "tx"
        /\ Len(r.items) = MaxLines
        /\ \A k \in DOMAIN r.items :
               /\ r.items[k].inventoryId = 1
               /\ r.items[k].quantity > 0
               /\ r.items[k].quantity <= Qty(<<r.w, 1>>)
        /\ r.items[1].quantity + r.items[MaxLines].quantity > Qty(<<r.w, 1>>)

\* C30: the generated expense reference is unique: in every state the
\* reference generateReference / generateExpenseReference would produce is
\* the reference of no existing expense, so that no assign and no positive
\* adjustment fails on its own expense entry.
ExpenseReferenceFresh ==
    GenerateExpenseReference(expense) \notin expense

\* ------------------------------------------------------------------- Next
\* the stock mutations outside the transfer workflow
InventoryNext ==
    \/ \E w \in Warehouses, i \in Items, qty \in QtyInputs :
           AssignInventoryToWarehouse(w, i, qty)
    \/ \E w \in Warehouses, i \in Items, qty \in (0 - MaxQty) .. MaxQty :
           AdjustInventoryQuantityRead(w, i, qty)
    \/ \E r \in BagToSet(req) : AdjustInventoryQuantityTx(r)

CreateTransferNext ==
    \/ \E user \in Users \ {"admin"}, from \in Warehouses, to \in Warehouses,
          items \in ItemLists :
           CreateTransferRequestCheck(user, from, to, items)
    \/ \E r \in BagToSet(req) : CreateTransferRequestCreate(r)

ApproveNext ==
    \/ \E id \in TransferIds : ApproveTransferRequestCheck(id)
    \/ \E r \in BagToSet(req), fault \in FaultPoints : ApproveTransferRequestTx(r, fault)

RejectCancelNext ==
    \/ \E id \in TransferIds, reason \in {"", "no stock to spare"} :
           RejectTransferRequestCheck(id, reason)
    \/ \E r \in BagToSet(req) : RejectTransferRequestUpdate(r)
    \/ \E user \in Users, id \in TransferIds : CancelTransferRequestCheck(user, id)
    \/ \E r \in BagToSet(req) : CancelTransferRequestUpdate(r)

CreateSaleNext ==
    \/ \E user \in SaleActors, w \in Warehouses, items \in ItemLists :
           CreateSaleCheck(user, w, items)
    \/ \E r \in BagToSet(req) : CreateSaleNumber(r)
    \/ \E r \in BagToSet(req), fault \in FaultPoints : CreateSaleCommit(r, fault)

CancelSaleNext ==
    \/ \E user \in SaleActors, id \in SaleIds : CancelSaleCheck(user, id)
    \/ \E r \in BagToSet(req) : CancelSaleCommit(r)

DeleteNext ==
    \/ \E i \in Items : DeleteInventoryCheck(i)
    \/ \E r \in BagToSet(req) : DeleteInventoryDelete(r)
    \/ \E w \in Warehouses : DeleteWarehouseCheck(w)
    \/ \E r \in BagToSet(req) : DeleteWarehouseManager(r)
    \/ \E r \in BagToSet(req) : DeleteWarehouseDelete(r)

ExpenseNext ==
    \/ \E reference \in {NoReference} \cup ExpenseReferences : CreateExpense(reference)
    \/ \E r \in BagToSet(req) : CreateExpenseCreate(r)
    \/ \E e \in ExpenseReferences : DeleteExpenseCheck(e)
    \/ \E r \in BagToSet(req) : DeleteExpenseDelete(r)

\* every handler of the core
Next ==
    \/ InventoryNext
    \/ CreateTransferNext
    \/ ApproveNext
    \/ RejectCancelNext
    \/ CreateSaleNext
    \/ CancelSaleNext
    \/ DeleteNext
    \/ ExpenseNext

Spec == Init /\ [][Next]_vars

\* the transitions of the requests Init holds, with adjustments and
\* assignments running beside them
TransferNext ==
    \/ InventoryNext
    \/ ApproveNext
    \/ RejectCancelNext

TransferInit ==
    /\ Init
    /\ userWarehouseId = SeedUsers

TransferSpec == TransferInit /\ [][TransferNext]_vars

\* the two multi-line transactions, on the seeded store holding a PENDING
\* transfer request for MaxQty of every item
AtomicNext ==
    \/ ApproveNext
    \/ CreateSaleNext

AtomicInit ==
    /\ TransferInit
    /\ Len(transferRequest) = 1
    /\ transferRequest[1].items =
           [k \in 1 .. MaxLines |-> [inventoryId |-> k, quantity |-> MaxQty]]

AtomicSpec == AtomicInit /\ [][AtomicNext]_vars

\* creation, rejection and cancellation of transfer requests while stock is
\* assigned and adjusted, on the store AtomicInit describes
RequestNext ==
    \/ InventoryNext
    \/ CreateTransferNext
    \/ RejectCancelNext

RequestSpec == AtomicInit /\ [][RequestNext]_vars

\* the sale the seeded warehouse can have made: MaxQty of every item
SeedSale ==
    CreateSaleTx(SeedStore,
                 [Request("createSale", "admin", 0, 1, 0, 0, 0,
                          [k \in 1 .. MaxLines |->
                              [inventoryId |-> k, quantity |-> MaxQty]])
                    EXCEPT !.read = GenerateSaleNumber(SeedStore.sale)],
                 NoFault).db

\* the seeded store, before or after that sale
SaleInit ==
    /\ \E d \in {SeedStore, SeedSale} :
          /\ warehouseInventory = d.wi
          /\ inventoryLog = d.log
          /\ transferRequest = d.tr
          /\ sale = d.sale
          /\ expense = d.expense
    /\ req = EmptyBag
    /\ reply = [op |-> "", id |-> 0, code |-> 0]
    /\ issued = 0
    /\ inventory = Items
    /\ warehouse = Warehouses
    /\ userWarehouseId = SeedUsers

\* sales and their cancellation
SaleNext ==
    \/ CreateSaleNext
    \/ CancelSaleNext

SaleSpec == SaleInit /\ [][SaleNext]_vars

\* the seeded store after the administrator adjusted the last item down to
\* nothing
DrainedStore ==
    AdjustTx(SeedStore, 1, Cardinality(Items), 0 - SeedQty, SeedQty).db

\* the seeded or the drained store, with no transfer request or one PENDING;
\* the manager of warehouse 1 is assigned to it or to no warehouse
DeleteInit ==
    /\ \E d \in {SeedStore, DrainedStore} :
          /\ warehouseInventory = d.wi
          /\ inventoryLog = d.log
          /\ sale = d.sale
          /\ expense = d.expense
    /\ transferRequest \in {<<>>} \cup SeedRequests
    /\ req = EmptyBag
    /\ reply = [op |-> "", id |-> 0, code |-> 0]
    /\ issued = 0
    /\ inventory = Items
    /\ warehouse = Warehouses
    /\ userWarehouseId \in {SeedUsers, UnassignedUsers}

\* deletion of items and warehouses while stock is assigned, adjusted and
\* transferred
DeleteSpecNext ==
    \/ InventoryNext
    \/ ApproveNext
    \/ DeleteNext

DeleteSpec == DeleteInit /\ [][DeleteSpecNext]_vars

\* expenses created and deleted while stock is assigned and adjusted
ExpenseSpecNext ==
    \/ InventoryNext
    \/ ExpenseNext

ExpenseSpec == TransferInit /\ [][ExpenseSpecNext]_vars
====
